---- MODULE Spec2Model ----
(***************************************************************************)
(* Model of the exec middleware of caddy-exec-stream (src/middleware.go,   *)
(* the handler at lines 217-335 and runAndCollectOutput at 339-396; lines  *)
(* 1-167 hold the earlier handler, without the foreground mode).  Cmd.run  *)
(* is not part of src/: RunStarts, RunReturns, RunErr and RunScope follow  *)
(* the detached run of the specification.                                  *)
(* One trigger is handled: the handler thread, the two SSE reader          *)
(* goroutines, the spawned process, its optional descendant, the timeout   *)
(* timer and the client are the processes of the model.                    *)
(***************************************************************************)
EXTENDS Integers, Sequences, FiniteSets, TLC

\* ---------------------------------------------------------------- bounds
\* Lines the process writes during one run, over both streams.
MaxLines == 2
\* Largest exit code the process exits with (codes 0..MaxExit).
MaxExit == 2
\* Lines an OS pipe holds before the writer blocks.
PipeCap == 2

\* Triggers handled concurrently, and argument templates of the descriptor.
NumTriggers == 2
MaxArgs == 2

\* bufio.Scanner's default token limit (bufio.NewScanner, lines 304 and 314).
MaxScanTokenSize == 65536

Streams == {"stdout", "stderr"}
Other(s) == IF s = "stdout" THEN "stderr" ELSE "stdout"
\* The lengths of the lines the process writes: a short line, and one that
\* does not fit the scanner's buffer together with its newline.
LineLens == {1, MaxScanTokenSize}
Timeouts == {0, 1}

VARIABLES
  cfg,        \* the Command Descriptor: stream, foreground, passThru, timeout
  flusherOK,  \* whether w implements http.Flusher
  selfExit,   \* whether the process exits on its own
  hpc,        \* the handler's position
  strategy,   \* the run strategy the dispatcher selected
  cmdCtx,     \* the cancellation sources the command's context is derived from
  timerFired, \* the timeout of the command's context has elapsed
  cancelled,  \* the request's context is done (client disconnected)
  proc,       \* "none", "startfail", "running", "exited", "killed"
  exitCode,   \* the exit code of an exited process
  desc,       \* a descendant of the process holds the output pipes open
  emitted,    \* per stream, the lines the process wrote, in order
  pipe,       \* per stream, the lines written and not yet read
  bufs,       \* collected run: stdoutBuf and stderrBuf
  rpc,        \* per reader goroutine, its position
  cur,        \* per reader, the line scanner.Text() returned
  raced,      \* per reader, its write overlapped the other reader's
  wgDone,     \* wg.Done() calls so far
  w,          \* the response: header map, committed status and headers, body
  logs,       \* m.log.Error messages
  nextCalls,  \* invocations of next.ServeHTTP
  err,        \* the error of the run (m.run, cmd.Run, cmd.Wait, Start, pipes)
  ret,        \* what ServeHTTP returned
  openPipes,  \* the output pipes of the command whose read end is open
  mArgs,      \* m.Args: the argument templates of the descriptor
  tctx,       \* per trigger, the value its request's replacer gives {path}
  tpc,        \* per trigger, its position in argument resolution
  tidx,       \* per trigger, the loop index of lines 222-224
  targv,      \* per trigger, its argv
  tcalls,     \* per trigger and template, the ReplaceAll calls made
  tproc       \* per trigger, the arguments its process was started with

\* The state of the handling of one trigger after argument resolution.
hvars == <<cfg, flusherOK, selfExit, hpc, strategy, cmdCtx, timerFired, cancelled,
           proc, exitCode, desc, emitted, pipe, bufs, rpc, cur, raced, wgDone,
           w, logs, nextCalls, err, ret, openPipes>>

\* The state of argument resolution under concurrent triggers.
argVars == <<mArgs, tctx, tpc, tidx, targv, tcalls, tproc>>

vars == <<hvars, argVars>>

\* ---------------------------------------------------------------- errors
Unset == [kind |-> "unset", code |-> 0]
NoErr == [kind |-> "nil", code |-> 0]
ExitErr(c) == [kind |-> "exit", code |-> c]
StartErr == [kind |-> "start", code |-> 0]
PipeErr == [kind |-> "pipe", code |-> 0]

\* err.Error()
ErrMsg(e) ==
  CASE e.kind = "exit" /\ e.code >= 0 -> "exit status " \o ToString(e.code)
    [] e.kind = "exit" /\ e.code < 0 -> "signal: killed"
    [] e.kind = "start" -> "exec: executable file not found"
    [] e.kind = "pipe" -> "exec: pipe"
    [] OTHER -> ""

\* What waiting for the process returns: nil for exit code 0, an *exec.ExitError
\* for another exit code or a kill (ExitCode() is -1 for a signalled process),
\* and the start error when the process never started.
WaitErr ==
  CASE proc = "exited" /\ exitCode = 0 -> NoErr
    [] proc = "exited" -> ExitErr(exitCode)
    [] proc = "killed" -> ExitErr(-1)
    [] OTHER -> StartErr

Finished == proc \in {"exited", "killed"}

\* ---------------------------------------------------------------- response
NewResponse == [hdr |-> {}, status |-> 0, sent |-> {}, body |-> <<>>]

HeaderSet(rw, k, v) ==
  [rw EXCEPT !.hdr = {p \in rw.hdr : p[1] # k} \cup {<<k, v>>}]

HeaderAdd(rw, k, v) == [rw EXCEPT !.hdr = rw.hdr \cup {<<k, v>>}]

\* The first WriteHeader commits the status and the headers set so far; a later
\* one is ignored.
WriteHeader(rw, code) ==
  IF rw.status # 0 THEN rw ELSE [rw EXCEPT !.status = code, !.sent = rw.hdr]

\* A Write on an uncommitted response commits 200 first.
Write(rw, entry) ==
  LET c == WriteHeader(rw, 200) IN [c EXCEPT !.body = Append(c.body, entry)]

Flush(rw) == WriteHeader(rw, 200)

CoreWrote == w.hdr # {} \/ w.status # 0 \/ w.body # <<>>

Frame(kind, data) == [kind |-> kind, data |-> data]

\* ---------------------------------------------------------------- JSON
JsonObj(fields, r) ==
  [fields |-> fields, status |-> r.status, error |-> r.error,
   stdout |-> r.stdout, stderr |-> r.stderr, exit_code |-> r.exit_code]

ZeroResp == [status |-> "", error |-> "", stdout |-> <<>>, stderr |-> <<>>,
             exit_code |-> 0]

\* json.Encode of the struct of lines 242-245: both fields are omitempty.
EncodeDetached(r) ==
  JsonObj((IF r.status # "" THEN {"status"} ELSE {})
            \cup (IF r.error # "" THEN {"error"} ELSE {}), r)

\* json.Encode of the struct of lines 368-374: only error is omitempty.
EncodeCollected(r) ==
  JsonObj({"status", "stdout", "stderr", "exit_code"}
            \cup (IF r.error # "" THEN {"error"} ELSE {}), r)

\* ---------------------------------------------------------------- dispatch
\* A dispatcher that tests passThru before stream.
StrategyPassThruFirst(c) ==
  IF c.passThru THEN "detached"
  ELSE IF c.stream THEN "streamed"
  ELSE IF c.foreground THEN "collected"
  ELSE "detached"

\* A dispatcher that tests foreground before stream.
StrategyForegroundFirst(c) ==
  IF c.foreground /\ ~c.passThru THEN "collected"
  ELSE IF c.stream THEN "streamed"
  ELSE "detached"

\* The run the dispatcher executes: lines 226-232 and 340-347.
Strategy(c) ==
  IF c.stream THEN "streamed"
  ELSE IF c.foreground /\ ~c.passThru THEN "collected"
  ELSE "detached"

\* m.run(argv) is handed the argument vector only: the request and its context
\* are not among its arguments (lines 232 and 342).
RunRequestBound == FALSE

TimeoutScope(c) == IF c.timeout > 0 THEN {"timeout"} ELSE {}

\* The cancellation scope of the detached run.
RunScope(c) == (IF RunRequestBound THEN {"request"} ELSE {}) \cup TimeoutScope(c)

\* ctx := r.Context(), bounded by the timeout when one is set (lines 349-354).
CollectScope(c) == {"request"} \cup TimeoutScope(c)

\* ctx := r.Context(), bounded by the timeout when one is set (lines 270-275).
StreamScope(c) == {"request"} \cup TimeoutScope(c)

CtxDoneIn(scope) ==
  \/ "request" \in scope /\ cancelled
  \/ "timeout" \in scope /\ timerFired

CtxDone == CtxDoneIn(cmdCtx)

\* The handler at its entry, argv resolved.
HandlerInit ==
  /\ cfg \in [stream : BOOLEAN, foreground : BOOLEAN, passThru : BOOLEAN,
              timeout : Timeouts]
  /\ flusherOK \in BOOLEAN
  /\ selfExit \in BOOLEAN
  /\ hpc = "entry"
  /\ strategy = "none"
  /\ cmdCtx = {}
  /\ timerFired = FALSE
  /\ cancelled = FALSE
  /\ proc = "none"
  /\ exitCode = 0
  /\ desc = FALSE
  /\ emitted = [s \in Streams |-> <<>>]
  /\ pipe = [s \in Streams |-> <<>>]
  /\ bufs = [s \in Streams |-> <<>>]
  /\ rpc = [s \in Streams |-> "idle"]
  /\ cur = [s \in Streams |-> [id |-> 0, len |-> 0]]
  /\ raced = [s \in Streams |-> FALSE]
  /\ wgDone = 0
  /\ w = NewResponse
  /\ logs = <<>>
  /\ nextCalls = 0
  /\ err = Unset
  /\ ret = "none"
  /\ openPipes = {}

Triggers == 1..NumTriggers
Paths == {"/a", "/b"}
Templates == {"-v", "{path}", "{unknown}"}

\* repl.ReplaceAll(argument, "") of line 223: a placeholder the request's
\* replacer knows becomes its value, an unknown one the empty string, and
\* other text stays.
ReplaceAll(template, path) ==
  CASE template = "{path}" -> path
    [] template = "{unknown}" -> ""
    [] OTHER -> template

\* No trigger is resolving arguments: the descriptor has no argument template.
ArgsIdle ==
  /\ mArgs = <<>>
  /\ tctx = [t \in Triggers |-> "/a"]
  /\ tpc = [t \in Triggers |-> "off"]
  /\ tidx = [t \in Triggers |-> 0]
  /\ targv = [t \in Triggers |-> <<>>]
  /\ tcalls = [t \in Triggers |-> <<>>]
  /\ tproc = [t \in Triggers |-> <<>>]

Init == HandlerInit /\ ArgsIdle


\* ---------------------------------------------------------------- responses
\* Lines 242-255: the terse JSON response of the detached run.
DetachedRespond(rw, e) ==
  LET resp == IF e = NoErr THEN [ZeroResp EXCEPT !.status = "success"]
              ELSE [ZeroResp EXCEPT !.error = ErrMsg(e)]
      w1 == IF e = NoErr THEN rw ELSE WriteHeader(rw, 500)
      w2 == HeaderAdd(w1, "Content-Type", "application/json")
  IN Write(w2, Frame("json", EncodeDetached(resp)))

\* An exit code taken without the *exec.ExitError type assertion.
ExitCodeOfUnchecked(e) == -1

\* Lines 380-384: the exit code of a failed collected run.
ExitCodeOf(e) == IF e.kind = "exit" THEN e.code ELSE -1

\* Lines 368-395: the JSON response of the collected run.
CollectedRespond(rw, e, out) ==
  LET resp == IF e # NoErr
              THEN [status |-> "error", error |-> ErrMsg(e), stdout |-> out.stdout,
                    stderr |-> out.stderr, exit_code |-> ExitCodeOf(e)]
              ELSE [status |-> "success", error |-> "", stdout |-> out.stdout,
                    stderr |-> out.stderr, exit_code |-> 0]
      w1 == IF e # NoErr THEN WriteHeader(rw, 500) ELSE rw
      w2 == HeaderSet(w1, "Content-Type", "application/json; charset=utf-8")
  IN Write(w2, Frame("json", EncodeCollected(resp)))

\* Lines 259-261: the SSE headers.
SSEHeaders(rw) ==
  HeaderSet(HeaderSet(HeaderSet(rw, "Content-Type", "text/event-stream"),
                      "Cache-Control", "no-cache"),
            "Connection", "keep-alive")

\* The message written to w without http.Error: no status, no content type.
HttpErrorNoStatus(rw, msg, code) == Write(rw, Frame("plain", msg))

\* http.Error of line 266: a plain-text body under the given status.
HttpError(rw, msg, code) ==
  LET w1 == HeaderSet(HeaderSet(rw, "Content-Type", "text/plain; charset=utf-8"),
                      "X-Content-Type-Options", "nosniff")
  IN Write(WriteHeader(w1, code), Frame("plain", msg))

\* A pass-through test that only the detached branch makes.
InvokesNextDetachedOnly(c) == c.passThru /\ ~c.foreground

\* Whether the handler hands the trigger to the continuation after m.run
\* (lines 234 and 340).
InvokesNext(c) == c.passThru

\* ---------------------------------------------------------------- m.run
\* m.run(argv): the detached run starts the process under its own scope ...
RunStarts(ok) ==
  IF ok /\ ~CtxDoneIn(RunScope(cfg)) THEN "running" ELSE "startfail"

\* ... blocks until the process has exited, been killed, or failed to start ...
RunReturns == proc = "startfail" \/ Finished

\* ... and returns nil or a single error value.
RunErr == WaitErr

\* ---------------------------------------------------------------- handler
\* Lines 226-232 and 339-342: the dispatcher calls m.run(argv), which starts
\* the process under its own cancellation scope and waits for it.
ServeHTTP_Run ==
  /\ hpc = "entry"
  /\ Strategy(cfg) = "detached"
  /\ strategy' = "detached"
  /\ cmdCtx' = RunScope(cfg)
  /\ \E ok \in BOOLEAN : proc' = RunStarts(ok)
  /\ hpc' = "run"
  /\ UNCHANGED <<argVars, openPipes, cfg, flusherOK, selfExit, timerFired, cancelled, exitCode, desc,
                 emitted, pipe, bufs, rpc, cur, raced, wgDone, w, logs, nextCalls,
                 err, ret>>

\* m.run returns; lines 234-255 (and 343-346 under runAndCollectOutput).
RunReturn ==
  /\ hpc = "run"
  /\ RunReturns
  /\ err' = RunErr
  /\ IF InvokesNext(cfg)
     THEN /\ logs' = IF RunErr # NoErr THEN Append(logs, ErrMsg(RunErr)) ELSE logs
          /\ nextCalls' = nextCalls + 1
          /\ ret' = "next"
          /\ w' = w
     ELSE /\ w' = DetachedRespond(w, RunErr)
          /\ ret' = "nil"
          /\ UNCHANGED <<logs, nextCalls>>
  /\ hpc' = "done"
  /\ UNCHANGED <<argVars, openPipes, cfg, flusherOK, selfExit, strategy, cmdCtx, timerFired, cancelled,
                 proc, exitCode, desc, emitted, pipe, bufs, rpc, cur, raced, wgDone>>

\* Lines 228-229 and 349-365: the collected run starts the process with both
\* outputs copied into stdoutBuf and stderrBuf.
ServeHTTP_Collect ==
  /\ hpc = "entry"
  /\ Strategy(cfg) = "collected"
  /\ strategy' = "collected"
  /\ cmdCtx' = CollectScope(cfg)
  /\ \E ok \in BOOLEAN, d \in BOOLEAN :
       IF ok /\ ~CtxDoneIn(CollectScope(cfg))
       THEN proc' = "running" /\ desc' = d /\ openPipes' = Streams
       ELSE proc' = "startfail" /\ desc' = FALSE /\ openPipes' = {}
  /\ hpc' = "collect"
  /\ UNCHANGED <<argVars, cfg, flusherOK, selfExit, timerFired, cancelled, exitCode,
                 emitted, pipe, bufs, rpc, cur, raced, wgDone, w, logs, nextCalls,
                 err, ret>>

\* cmd.Run returns (line 365) once the process has exited and the copies of its
\* outputs have reached end-of-stream; lines 368-395 write the response.
CollectReturn ==
  /\ hpc = "collect"
  /\ proc = "startfail" \/ (Finished /\ ~desc)
  /\ err' = WaitErr
  /\ w' = CollectedRespond(w, WaitErr, bufs)
  /\ ret' = "nil"
  /\ openPipes' = {}
  /\ hpc' = "done"
  /\ UNCHANGED <<argVars, cfg, flusherOK, selfExit, strategy, cmdCtx, timerFired, cancelled,
                 proc, exitCode, desc, emitted, pipe, bufs, rpc, cur, raced, wgDone,
                 logs, nextCalls>>

\* The pipes created before the pipe that failed: cmd.StdoutPipe comes first
\* (line 280), cmd.StderrPipe second (line 286).
PipesBefore(pf) == IF pf = "stderr" THEN {"stdout"} ELSE {}

\* Lines 258-299: the SSE headers, the flusher check, the context, the pipes,
\* cmd.Start and the launch of the two readers.
ServeHTTP_Stream ==
  /\ hpc = "entry"
  /\ Strategy(cfg) = "streamed"
  /\ strategy' = "streamed"
  /\ IF ~flusherOK
     THEN /\ logs' = Append(logs, "streaming unsupported")
          /\ w' = HttpError(SSEHeaders(w), "Streaming unsupported!", 500)
          /\ ret' = "nil"
          /\ hpc' = "done"
          /\ UNCHANGED <<cmdCtx, proc, desc, rpc, err, openPipes>>
     ELSE /\ w' = SSEHeaders(w)
          /\ cmdCtx' = StreamScope(cfg)
          /\ \E pf \in {"none", "stdout", "stderr"}, ok \in BOOLEAN, d \in BOOLEAN :
               IF pf # "none"
               THEN /\ logs' = Append(logs, "getting " \o pf \o " pipe")
                    /\ err' = PipeErr
                    /\ ret' = "err"
                    /\ hpc' = "done"
                    /\ UNCHANGED <<proc, desc, rpc>>
               ELSE IF ~(ok /\ ~CtxDoneIn(StreamScope(cfg)))
               THEN /\ logs' = Append(logs, "starting command")
                    /\ err' = StartErr
                    /\ proc' = "startfail"
                    /\ ret' = "err"
                    /\ hpc' = "done"
                    /\ UNCHANGED <<desc, rpc>>
               ELSE /\ proc' = "running"
                    /\ desc' = d
                    /\ rpc' = [s \in Streams |-> "scan"]
                    /\ hpc' = "wgwait"
                    /\ UNCHANGED <<logs, err, ret>>
  /\ UNCHANGED <<argVars, openPipes, cfg, flusherOK, selfExit, timerFired, cancelled, exitCode,
                 emitted, pipe, bufs, cur, raced, wgDone, nextCalls>>

\* ---------------------------------------------------------------- readers
\* The scanner cannot return a line that does not fit its buffer with its
\* newline: Scan() then returns false (bufio.ErrTooLong).
TooLong(line) == line.len + 1 > MaxScanTokenSize

\* scanner.Scan() of lines 305 and 315 with a line in the pipe.
ScanLine(s) ==
  /\ rpc[s] = "scan"
  /\ pipe[s] # <<>>
  /\ IF TooLong(Head(pipe[s]))
     THEN /\ rpc' = [rpc EXCEPT ![s] = "done"]
          /\ wgDone' = wgDone + 1
          /\ UNCHANGED <<pipe, cur>>
     ELSE /\ cur' = [cur EXCEPT ![s] = Head(pipe[s])]
          /\ pipe' = [pipe EXCEPT ![s] = Tail(pipe[s])]
          /\ rpc' = [rpc EXCEPT ![s] = "emit"]
          /\ UNCHANGED wgDone
  /\ UNCHANGED <<argVars, openPipes, cfg, flusherOK, selfExit, hpc, strategy, cmdCtx, timerFired,
                 cancelled, proc, exitCode, desc, emitted, bufs, raced, w, logs,
                 nextCalls, err, ret>>

\* scanner.Scan() at end-of-stream: every write end of the pipe is closed.
ReaderEOF(s) ==
  /\ rpc[s] = "scan"
  /\ pipe[s] = <<>>
  /\ Finished /\ ~desc
  /\ rpc' = [rpc EXCEPT ![s] = "done"]
  /\ wgDone' = wgDone + 1
  /\ UNCHANGED <<argVars, openPipes, cfg, flusherOK, selfExit, hpc, strategy, cmdCtx, timerFired,
                 cancelled, proc, exitCode, desc, emitted, pipe, bufs, cur, raced,
                 w, logs, nextCalls, err, ret>>

\* The reader enters fmt.Fprintf(w, ...) / flusher.Flush() (lines 306-307 and
\* 316-317). Nothing keeps the other reader out of the same calls.
EmitBegin(s) ==
  /\ rpc[s] = "emit"
  /\ rpc' = [rpc EXCEPT ![s] = "emitting"]
  /\ raced' = IF rpc[Other(s)] = "emitting"
              THEN [t \in Streams |-> TRUE]
              ELSE [raced EXCEPT ![s] = FALSE]
  /\ UNCHANGED <<argVars, openPipes, cfg, flusherOK, selfExit, hpc, strategy, cmdCtx, timerFired,
                 cancelled, proc, exitCode, desc, emitted, pipe, bufs, cur, wgDone,
                 w, logs, nextCalls, err, ret>>

\* What an Fprintf of one frame leaves in the response: the frame; or, when the
\* write ran concurrently with the other reader's (a data race on the response
\* writer's buffer), the frame, a frame whose bytes are mixed with the other
\* reader's, or nothing.
EmitOutcomes(s, line, overlapped) ==
  IF overlapped
  THEN {<<Frame(s, line)>>, <<Frame("mixed", line)>>, <<>>}
  ELSE {<<Frame(s, line)>>}

\* The reader leaves Fprintf and Flush.
EmitEnd(s) ==
  /\ rpc[s] = "emitting"
  /\ \E fs \in EmitOutcomes(s, cur[s], raced[s]) :
       w' = Flush([w EXCEPT !.body = w.body \o fs])
  /\ rpc' = [rpc EXCEPT ![s] = "scan"]
  /\ raced' = [raced EXCEPT ![s] = FALSE]
  /\ UNCHANGED <<argVars, openPipes, cfg, flusherOK, selfExit, hpc, strategy, cmdCtx, timerFired,
                 cancelled, proc, exitCode, desc, emitted, pipe, bufs, cur, wgDone,
                 logs, nextCalls, err, ret>>

\* wg.Wait() of line 321 returns.
WgWait ==
  /\ hpc = "wgwait"
  /\ wgDone = 2
  /\ hpc' = "cmdwait"
  /\ UNCHANGED <<argVars, openPipes, cfg, flusherOK, selfExit, strategy, cmdCtx, timerFired, cancelled,
                 proc, exitCode, desc, emitted, pipe, bufs, rpc, cur, raced, wgDone,
                 w, logs, nextCalls, err, ret>>

\* Lines 323-334: cmd.Wait returns, the error frame and the close frame.
StreamTail(rw, e) ==
  LET w1 == IF e # NoErr THEN Flush(Write(rw, Frame("error", ErrMsg(e)))) ELSE rw
  IN Flush(Write(w1, Frame("close", "Command finished")))

\* A handler that does not wait for the process after the readers are done.
WaitSkipped == TRUE

\* cmd.Wait() of line 323 blocks until the process has exited or been killed.
WaitReturns == Finished

CmdWait ==
  /\ hpc = "cmdwait"
  /\ WaitReturns
  /\ err' = WaitErr
  /\ logs' = IF WaitErr # NoErr THEN Append(logs, "command finished with error")
             ELSE logs
  /\ w' = StreamTail(w, WaitErr)
  /\ ret' = "nil"
  /\ openPipes' = {}
  /\ hpc' = "done"
  /\ UNCHANGED <<argVars, cfg, flusherOK, selfExit, strategy, cmdCtx, timerFired, cancelled,
                 proc, exitCode, desc, emitted, pipe, bufs, rpc, cur, raced, wgDone,
                 nextCalls>>

\* ---------------------------------------------------------------- environment
Written == Len(emitted["stdout"]) + Len(emitted["stderr"])

\* The process writes one line to one of its outputs.
ProcWrite(s) ==
  /\ proc = "running"
  /\ strategy \in {"streamed", "collected"}
  /\ Written < MaxLines
  /\ strategy = "streamed" => Len(pipe[s]) < PipeCap
  /\ \E l \in LineLens :
       LET line == [id |-> Written + 1, len |-> l] IN
       /\ emitted' = [emitted EXCEPT ![s] = Append(emitted[s], line)]
       /\ IF strategy = "streamed"
          THEN pipe' = [pipe EXCEPT ![s] = Append(pipe[s], line)] /\ bufs' = bufs
          ELSE bufs' = [bufs EXCEPT ![s] = Append(bufs[s], line)] /\ pipe' = pipe
  /\ UNCHANGED <<argVars, openPipes, cfg, flusherOK, selfExit, hpc, strategy, cmdCtx, timerFired,
                 cancelled, proc, exitCode, desc, rpc, cur, raced, wgDone, w, logs,
                 nextCalls, err, ret>>

\* The process exits on its own.
ProcExit ==
  /\ proc = "running"
  /\ selfExit
  /\ \E c \in 0..MaxExit : exitCode' = c
  /\ proc' = "exited"
  /\ UNCHANGED <<argVars, openPipes, cfg, flusherOK, selfExit, hpc, strategy, cmdCtx, timerFired,
                 cancelled, desc, emitted, pipe, bufs, rpc, cur, raced, wgDone, w,
                 logs, nextCalls, err, ret>>

\* exec.CommandContext kills the process when the command's context is done.
CtxKill ==
  /\ proc = "running"
  /\ CtxDone
  /\ proc' = "killed"
  /\ exitCode' = -1
  /\ UNCHANGED <<argVars, openPipes, cfg, flusherOK, selfExit, hpc, strategy, cmdCtx, timerFired,
                 cancelled, desc, emitted, pipe, bufs, rpc, cur, raced, wgDone, w,
                 logs, nextCalls, err, ret>>

\* The timeout of context.WithTimeout elapses (the deferred cancel stops it
\* when the handler returns).
Timeout ==
  /\ "timeout" \in cmdCtx
  /\ ~timerFired
  /\ hpc # "done"
  /\ timerFired' = TRUE
  /\ UNCHANGED <<argVars, openPipes, cfg, flusherOK, selfExit, hpc, strategy, cmdCtx, cancelled, proc,
                 exitCode, desc, emitted, pipe, bufs, rpc, cur, raced, wgDone, w,
                 logs, nextCalls, err, ret>>

\* The client disconnects: the request's context is cancelled.
ClientDisconnect ==
  /\ ~cancelled
  /\ hpc # "done"
  /\ cancelled' = TRUE
  /\ UNCHANGED <<argVars, openPipes, cfg, flusherOK, selfExit, hpc, strategy, cmdCtx, timerFired, proc,
                 exitCode, desc, emitted, pipe, bufs, rpc, cur, raced, wgDone, w,
                 logs, nextCalls, err, ret>>

\* The descendant that inherited the outputs exits and closes them.
DescExit ==
  /\ desc
  /\ desc' = FALSE
  /\ UNCHANGED <<argVars, openPipes, cfg, flusherOK, selfExit, hpc, strategy, cmdCtx, timerFired,
                 cancelled, proc, exitCode, emitted, pipe, bufs, rpc, cur, raced,
                 wgDone, w, logs, nextCalls, err, ret>>

\* The steps of the handler and of the goroutines and timers it owns.
HandlerStep ==
  \/ ServeHTTP_Run
  \/ RunReturn
  \/ ServeHTTP_Collect
  \/ CollectReturn
  \/ ServeHTTP_Stream
  \/ \E s \in Streams : ScanLine(s)
  \/ \E s \in Streams : ReaderEOF(s)
  \/ \E s \in Streams : EmitBegin(s)
  \/ \E s \in Streams : EmitEnd(s)
  \/ WgWait
  \/ CmdWait
  \/ CtxKill

Next ==
  \/ ServeHTTP_Run
  \/ RunReturn
  \/ ServeHTTP_Collect
  \/ CollectReturn
  \/ ServeHTTP_Stream
  \/ \E s \in Streams : ScanLine(s)
  \/ \E s \in Streams : ReaderEOF(s)
  \/ \E s \in Streams : EmitBegin(s)
  \/ \E s \in Streams : EmitEnd(s)
  \/ WgWait
  \/ CmdWait
  \/ \E s \in Streams : ProcWrite(s)
  \/ ProcExit
  \/ CtxKill
  \/ Timeout
  \/ ClientDisconnect
  \/ DescExit

Spec == Init /\ [][Next]_vars

\* ---------------------------------------------------------------- arguments
\* Lines 217-221: a trigger enters ServeHTTP; argv := make([]string, len(m.Args)).
T_Make(t) ==
  /\ tpc[t] = "entry"
  /\ targv' = [targv EXCEPT ![t] = [i \in 1..Len(mArgs) |-> ""]]
  /\ tcalls' = [tcalls EXCEPT ![t] = [i \in 1..Len(mArgs) |-> 0]]
  /\ tidx' = [tidx EXCEPT ![t] = 1]
  /\ tpc' = [tpc EXCEPT ![t] = "loop"]
  /\ UNCHANGED <<hvars, mArgs, tctx, tproc>>

\* A resolution that stores the resolved argument in the descriptor's own slice.
T_ResolveInPlace(t) ==
  /\ tpc[t] = "loop"
  /\ tidx[t] <= Len(mArgs)
  /\ mArgs' = [mArgs EXCEPT ![tidx[t]] = ReplaceAll(mArgs[tidx[t]], tctx[t])]
  /\ targv' = [targv EXCEPT ![t][tidx[t]] = ReplaceAll(mArgs[tidx[t]], tctx[t])]
  /\ tcalls' = [tcalls EXCEPT ![t][tidx[t]] = @ + 1]
  /\ tidx' = [tidx EXCEPT ![t] = @ + 1]
  /\ UNCHANGED <<hvars, tctx, tpc, tproc>>

\* Lines 222-224: one iteration, argv[index] = repl.ReplaceAll(argument, "").
T_Resolve(t) ==
  /\ tpc[t] = "loop"
  /\ tidx[t] <= Len(mArgs)
  /\ targv' = [targv EXCEPT ![t][tidx[t]] = ReplaceAll(mArgs[tidx[t]], tctx[t])]
  /\ tcalls' = [tcalls EXCEPT ![t][tidx[t]] = @ + 1]
  /\ tidx' = [tidx EXCEPT ![t] = @ + 1]
  /\ UNCHANGED <<hvars, mArgs, tctx, tpc, tproc>>

\* The loop is over and the mode is dispatched: the process is started with
\* argv (m.run(argv) at lines 232 and 342, exec.CommandContext(ctx, m.Command,
\* argv...) at lines 277 and 356), unless the stream cannot be flushed.
T_Start(t) ==
  /\ tpc[t] = "loop"
  /\ tidx[t] > Len(mArgs)
  /\ IF Strategy(cfg) = "streamed" /\ ~flusherOK
     THEN tpc' = [tpc EXCEPT ![t] = "done"] /\ tproc' = tproc
     ELSE /\ tpc' = [tpc EXCEPT ![t] = "started"]
          /\ tproc' = [tproc EXCEPT ![t] = targv[t]]
  /\ UNCHANGED <<hvars, mArgs, tctx, tidx, targv, tcalls>>

\* The descriptors and the triggers of the argument model: every descriptor of
\* up to MaxArgs templates, every request context per trigger.
ArgsInit ==
  /\ mArgs \in UNION {[1..n -> Templates] : n \in 0..MaxArgs}
  /\ tctx \in [Triggers -> Paths]
  /\ tpc = [t \in Triggers |-> "entry"]
  /\ tidx = [t \in Triggers |-> 0]
  /\ targv = [t \in Triggers |-> <<>>]
  /\ tcalls = [t \in Triggers |-> <<>>]
  /\ tproc = [t \in Triggers |-> <<>>]

InitArgs == HandlerInit /\ cfg.timeout = 0 /\ selfExit /\ ArgsInit

NextArgs ==
  \/ \E t \in Triggers : T_Make(t)
  \/ \E t \in Triggers : T_Resolve(t)
  \/ \E t \in Triggers : T_Start(t)

\* Concurrent triggers up to the start of their processes.
SpecArgs == InitArgs /\ [][NextArgs]_vars


\* ---------------------------------------------------------------- properties
Last(q) == q[Len(q)]
IsPrefix(p, q) == Len(p) <= Len(q) /\ SubSeq(q, 1, Len(p)) = p
Success(code) == code \in 200..299

\* The lines delivered as events of stream s, in the order of the response.
Delivered(s) ==
  LET sel == SelectSeq(w.body, LAMBDA f : f.kind = s)
  IN [i \in 1..Len(sel) |-> sel[i].data]

Started == proc \in {"running", "exited", "killed"}

\* C1: in streamed mode, once the process has started, the response holds
\* zero or more stdout/stderr frames, then at most one error frame, then
\* exactly one close frame; nothing follows close, and the error frame is
\* there if and only if waiting for the process returned a failure.
C1_FrameSequence ==
  (strategy = "streamed" /\ Started) =>
    LET b == w.body
        n == Len(b)
    IN IF hpc # "done"
       THEN \A i \in 1..n : b[i].kind \in Streams
       ELSE LET m == IF err # NoErr THEN n - 2 ELSE n - 1 IN
            /\ m >= 0
            /\ b[n].kind = "close"
            /\ err # NoErr => b[n - 1].kind = "error"
            /\ \A i \in 1..m : b[i].kind \in Streams

\* C2: every streamed trigger whose transport supports flushing has received
\* a terminating close event when the handler returns, whatever the outcome
\* (success, non-zero exit, kill, pipe failure, start failure).
C2_CloseAlways ==
  (hpc = "done" /\ cfg.stream /\ flusherOK) =>
    (w.body # <<>> /\ Last(w.body).kind = "close")

\* C3: with stream, foreground and passThru all unset, a run without error
\* answers {"status":"success"} under a success status; a run with an error
\* answers a non-2xx status and a body whose status is "error" and whose error
\* is the message; the body never has stdout or stderr fields.
C3_DetachedResponse ==
  (hpc = "done" /\ ~cfg.stream /\ ~cfg.foreground /\ ~cfg.passThru) =>
    /\ Len(w.body) = 1
    /\ w.body[1].kind = "json"
    /\ LET j == w.body[1].data IN
       /\ err = NoErr =>
            (j.fields = {"status"} /\ j.status = "success" /\ Success(w.status))
       /\ err # NoErr =>
            /\ ~Success(w.status)
            /\ "status" \in j.fields /\ j.status = "error"
            /\ "error" \in j.fields /\ j.error = ErrMsg(err)
       /\ j.fields \cap {"stdout", "stderr"} = {}

\* C4: with stream unset, foreground set and passThru unset, exit_code is 0
\* if and only if status is "success"; a process that exits with a non-zero
\* code c gives status "error" and exit_code c; a process that could not be
\* launched gives status "error" and exit_code -1.
C4_ExitCode ==
  (hpc = "done" /\ ~cfg.stream /\ cfg.foreground /\ ~cfg.passThru) =>
    /\ Len(w.body) = 1
    /\ w.body[1].kind = "json"
    /\ LET j == w.body[1].data IN
       /\ {"status", "exit_code"} \subseteq j.fields
       /\ (j.exit_code = 0) <=> (j.status = "success")
       /\ (proc = "exited" /\ exitCode # 0) =>
            (j.status = "error" /\ j.exit_code = exitCode)
       /\ proc = "startfail" => (j.status = "error" /\ j.exit_code = -1)

C4_Witness ==
  /\ hpc = "done" /\ ~cfg.stream /\ cfg.foreground /\ ~cfg.passThru
  /\ proc = "exited" /\ exitCode = MaxExit
  /\ w.body[1].data.status = "error"
  /\ w.body[1].data.exit_code = MaxExit

\* C5: with stream unset and passThru set, foreground set or not, the run
\* failing or not, the continuation is invoked exactly once, after the run has
\* returned, and the core writes no header, status or body of its own.
C5_PassThru ==
  (~cfg.stream /\ cfg.passThru) =>
    /\ ~CoreWrote
    /\ nextCalls = (IF hpc = "done" THEN 1 ELSE 0)
    /\ nextCalls > 0 => err # Unset

C5_Witness ==
  /\ hpc = "done" /\ ~cfg.stream /\ cfg.passThru /\ cfg.foreground
  /\ err # NoErr /\ err # Unset
  /\ nextCalls = 1
  /\ logs # <<>>

\* C6: the continuation is never invoked in streamed mode, whatever passThru
\* is, and never on a trigger for which the core has written a header, a
\* status or a body.
C6_NoNextAfterWrite ==
  /\ cfg.stream => nextCalls = 0
  /\ nextCalls > 0 => ~CoreWrote

C6_Witness ==
  /\ hpc = "done" /\ cfg.stream /\ cfg.passThru
  /\ w.body # <<>> /\ Last(w.body).kind = "close"
  /\ nextCalls = 0

\* C7 as stated: streamed whenever stream is set, otherwise a collected run
\* whenever foreground is set (passThru set or not), otherwise detached.
C7_DecisionTable ==
  strategy # "none" =>
    strategy = (IF cfg.stream THEN "streamed"
                ELSE IF cfg.foreground THEN "collected"
                ELSE "detached")

\* C7 as amended: streamed whenever stream is set; otherwise a collected run
\* when foreground is set and passThru is not; otherwise the detached run
\* m.run, also for foreground with passThru, where nothing is collected.
C7_DecisionTableAmended ==
  strategy # "none" =>
    /\ strategy = (IF cfg.stream THEN "streamed"
                   ELSE IF cfg.foreground /\ ~cfg.passThru THEN "collected"
                   ELSE "detached")
    /\ (strategy = "streamed") <=> (<<"Cache-Control", "no-cache">> \in w.hdr)
    /\ (strategy = "collected" /\ hpc = "done") =>
         {"stdout", "stderr"} \subseteq w.body[1].data.fields
    /\ (~cfg.stream /\ cfg.foreground /\ cfg.passThru) =>
         (hpc \in {"run", "done"} /\ \A s \in Streams : bufs[s] = <<>>)

C7_Witness ==
  /\ ~cfg.stream /\ cfg.foreground /\ cfg.passThru
  /\ strategy = "detached"
  /\ hpc = "done"
  /\ nextCalls = 1

\* C8: in every run strategy, and with passThru set too, a request cancelled
\* while the process is running gets the process terminated.
C8_BoundToRequest == (proc = "running" /\ cancelled) => ENABLED CtxKill

\* C9: with a timeout T > 0 and a process that does not exit on its own, once
\* the timeout has fired the run never hangs (the handler, its goroutines or
\* the kill can always take a step until the handler has returned), and the
\* run is reported as a failure.
C9_TimeoutCompletes ==
  (cfg.timeout > 0 /\ ~selfExit /\ timerFired) =>
    /\ hpc # "done" => ENABLED HandlerStep
    /\ hpc = "done" =>
         CASE strategy = "streamed" -> \E i \in 1..Len(w.body) : w.body[i].kind = "error"
           [] strategy = "collected" -> w.body[1].data.status = "error"
           [] OTHER -> err # NoErr

\* C10: in a streamed run the stdout events are the lines the process wrote to
\* stdout, each once and in the order written, and likewise for stderr: at
\* all times a prefix of them, and all of them once the stream has closed.
C10_LinesDelivered ==
  (strategy = "streamed" /\ Started) =>
    \A s \in Streams :
      /\ IsPrefix(Delivered(s), emitted[s])
      /\ hpc = "done" => Delivered(s) = emitted[s]

\* A failure of the process or of its launch, as opposed to a failure to write
\* to the response.
ProcessLevel(e) == e.kind \in {"pipe", "start", "exit"}

\* C11: no process-level error (pipe creation, start, non-zero exit, kill) is
\* returned by the handler to the host as an error value: the handler returns
\* a non-nil error only for a failed write to the response.
C11_NoProcessErrorReturned ==
  (hpc = "done" /\ ret = "err") => ~ProcessLevel(err)

\* The pipe of stream s is at end-of-stream: nothing is left to read and every
\* write end is closed.
AtEOF(s) == pipe[s] = <<>> /\ Finished /\ ~desc

\* C12: in a streamed run a reader signals completion only once it has read
\* its pipe to end-of-stream, whatever the process writes, and the runner
\* waits for the process exit only after both readers have signalled; so the
\* process is never blocked on a pipe that nobody reads.
C12_DrainBeforeWait ==
  (strategy = "streamed" /\ Started) =>
    /\ \A s \in Streams : rpc[s] = "done" => AtEOF(s)
    /\ hpc \in {"cmdwait", "done"} =>
         (wgDone = 2 /\ \A s \in Streams : rpc[s] = "done")
    /\ ~\E s \in Streams :
         proc = "running" /\ rpc[s] = "done" /\ Len(pipe[s]) >= PipeCap

\* C13: in a streamed run the two readers are never inside their write and
\* flush of the shared response at the same time, and every event is in the
\* response as one whole frame: no frame holds bytes of both streams.
C13_NoConcurrentWrite ==
  /\ ~(rpc["stdout"] = "emitting" /\ rpc["stderr"] = "emitting")
  /\ \A i \in 1..Len(w.body) : w.body[i].kind # "mixed"

SSEKinds == {"stdout", "stderr", "mixed", "error", "close"}

\* C16: with stream set and a response that cannot flush, the handler logs the
\* failure, writes a single plain-text HTTP 500 response and returns at once:
\* no process is spawned, no SSE frame (not even close) is written, and the
\* continuation is not invoked.
C16_StreamingUnsupported ==
  (cfg.stream /\ ~flusherOK) =>
    /\ hpc \in {"entry", "done"}
    /\ proc = "none"
    /\ nextCalls = 0
    /\ \A s \in Streams : rpc[s] = "idle"
    /\ \A i \in 1..Len(w.body) : w.body[i].kind \notin SSEKinds
    /\ hpc = "done" =>
         /\ logs = <<"streaming unsupported">>
         /\ w.status = 500
         /\ w.body = <<Frame("plain", "Streaming unsupported!")>>
         /\ <<"Content-Type", "text/plain; charset=utf-8">> \in w.sent
         /\ <<"Content-Type", "text/event-stream">> \notin w.sent
         /\ ret = "nil"

C16_Witness ==
  /\ cfg.stream /\ ~flusherOK /\ cfg.passThru
  /\ hpc = "done"
  /\ w.status = 500
  /\ Len(w.body) = 1

JsonTypes == {"application/json", "application/json; charset=utf-8"}

\* C17: in every direct JSON response (detached and collected, success and
\* error) the JSON content type is set before the status is committed, so it
\* is among the headers the client receives.
C17_ContentTypeBeforeStatus ==
  (hpc = "done" /\ w.body # <<>> /\ w.body[1].kind = "json") =>
    \E h \in w.sent : h[1] = "Content-Type" /\ h[2] \in JsonTypes

Resolved(t) == [i \in 1..Len(mArgs) |-> ReplaceAll(mArgs[i], tctx[t])]

\* C15: under concurrent triggers each trigger resolves every template exactly
\* once, before mode dispatch, into an argument vector of its own; handling a
\* trigger leaves the descriptor unchanged; and the process of a trigger is
\* started with the arguments resolved from that trigger's own context.
C15_OwnArguments ==
  /\ [](\A t \in Triggers :
          /\ tpc[t] \in {"started", "done"} =>
               /\ targv[t] = Resolved(t)
               /\ \A i \in 1..Len(mArgs) : tcalls[t][i] = 1
          /\ tpc[t] = "started" => tproc[t] = Resolved(t)
          /\ tpc[t] # "started" => tproc[t] = <<>>)
  /\ [][mArgs' = mArgs /\ cfg' = cfg]_vars

C15_Witness ==
  \E t, u \in Triggers :
    /\ t # u
    /\ tpc[t] = "started" /\ tpc[u] = "started"
    /\ tctx[t] # tctx[u]
    /\ \E i \in 1..Len(mArgs) : mArgs[i] = "{path}"
    /\ tproc[t] = Resolved(t) /\ tproc[u] = Resolved(u)
    /\ tproc[t] # tproc[u]

====
